---- MODULE Spec2Model ----
(***************************************************************************)
(* The background service of the Python script deck plugin: the registry   *)
(* of tracked actions (PythonBackgroundService, python-bg-service.ts) and  *)
(* the key handlers that drive it (PythonService, actions/python-          *)
(* service.ts).                                                            *)
(*                                                                         *)
(* Strings are sequences of one-character strings.  Numbers are records    *)
(* [cls, x2]: cls is "fin", "nan", "inf" or "ninf" and, for a finite       *)
(* number, x2 is twice its value, so the number domain of the model is the *)
(* multiples of one half.  Time is counted in steps of 500 ms, so that a   *)
(* timer of intervalSeconds * 1000 ms has a period of x2 steps.            *)
(***************************************************************************)
EXTENDS Integers, Sequences, FiniteSets, Bags, TLC

(* ------------------------------ bounds --------------------------------- *)

\* Largest number of child processes in flight that is explored.
MaxChildren == 1

\* The key instances of the host (the values of ev.action.id).
Keys == {"K1", "K2"}

(* --------------------------- JavaScript values ------------------------- *)

\* The absent string (undefined) of an optional string field.
Undefined == << "undefined" >>

Fin(n2) == [cls |-> "fin", x2 |-> n2]

NaN == [cls |-> "nan", x2 |-> 0]

Infinity == [cls |-> "inf", x2 |-> 0]

\* A value of settings.interval: number | string | undefined.
NumberValue(n) == [type |-> "number", num |-> n, str |-> << >>]

StringValue(s) == [type |-> "string", num |-> NaN, str |-> s]

UndefinedValue == [type |-> "undefined", num |-> NaN, str |-> << >>]

Digits == << "0", "1", "2", "3", "4", "5", "6", "7", "8", "9" >>

IsDigit(c) == \E i \in 1 .. 10 : Digits[i] = c

DigitValue(c) == (CHOOSE i \in 1 .. 10 : Digits[i] = c) - 1

IsWhiteSpace(c) == c \in {" ", "\t", "\n", "\r"}

RECURSIVE TrimStart(_)
TrimStart(s) ==
    IF s # << >> /\ IsWhiteSpace(Head(s)) THEN TrimStart(Tail(s)) ELSE s

RECURSIVE TrimEnd(_)
TrimEnd(s) ==
    IF s # << >> /\ IsWhiteSpace(s[Len(s)])
    THEN TrimEnd(SubSeq(s, 1, Len(s) - 1))
    ELSE s

\* String.prototype.trim
Trim(s) == TrimEnd(TrimStart(s))

RECURSIVE DigitsValue(_)
DigitsValue(s) ==
    IF s = << >> THEN 0
    ELSE 10 * DigitsValue(SubSeq(s, 1, Len(s) - 1)) + DigitValue(s[Len(s)])

AllDigits(s) == \A i \in 1 .. Len(s) : IsDigit(s[i])

\* The unsigned decimal literals of the number domain: digits, digits ".",
\* digits "." "0" and digits "." "5" (and the same without integer digits).
UnsignedDecimal(s) ==
    LET dot == IF \E i \in 1 .. Len(s) : s[i] = "."
               THEN CHOOSE i \in 1 .. Len(s) :
                        s[i] = "." /\ \A j \in 1 .. i - 1 : s[j] # "."
               ELSE Len(s) + 1
        int == SubSeq(s, 1, dot - 1)
        frac == SubSeq(s, dot + 1, Len(s))
    IN  IF /\ AllDigits(int)
           /\ frac \in {<< >>, << "0" >>, << "5" >>}
           /\ Len(int) + Len(frac) > 0
        THEN Fin(2 * DigitsValue(int) + (IF frac = << "5" >> THEN 1 ELSE 0))
        ELSE NaN

\* Number(string): the string is trimmed, the empty string is 0, a decimal
\* literal with an optional sign is its value, anything else is NaN.
StringToNumber(s) ==
    LET t == Trim(s)
        signed == t # << >> /\ Head(t) \in {"+", "-"}
        body == IF signed THEN Tail(t) ELSE t
        mag == UnsignedDecimal(body)
    IN  IF t = << >> THEN Fin(0)
        ELSE IF mag.cls = "fin" /\ signed /\ Head(t) = "-" THEN Fin(0 - mag.x2)
        ELSE mag

\* Number.isFinite
IsFinite(n) == n.cls = "fin"

\* A string in a boolean context: undefined and "" are falsy.
Truthy(s) == s # Undefined /\ s # << >>

\* String.prototype.includes
Includes(s, sub) ==
    \E i \in 1 .. (Len(s) - Len(sub) + 1) : SubSeq(s, i, i + Len(sub) - 1) = sub

\* String.prototype.lastIndexOf of a character, 0-based; -1 when absent.
LastIndexOf(s, c) ==
    IF \E i \in 1 .. Len(s) : s[i] = c
    THEN (CHOOSE i \in 1 .. Len(s) :
            s[i] = c /\ \A j \in (i + 1) .. Len(s) : s[j] # c) - 1
    ELSE 0 - 1

\* The path without its trailing slashes (a path of slashes only is "/").
RECURSIVE StripSlashes(_)
StripSlashes(p) ==
    IF Len(p) > 1 /\ p[Len(p)] = "/"
    THEN StripSlashes(SubSeq(p, 1, Len(p) - 1))
    ELSE p

\* path.dirname (posix)
Dirname(p) ==
    LET q == StripSlashes(p)
        i == LastIndexOf(q, "/")
    IN  IF p = << >> \/ i < 0 THEN << "." >>
        ELSE IF StripSlashes(SubSeq(q, 1, i + 1)) = << >> THEN << "/" >>
        ELSE StripSlashes(SubSeq(q, 1, i + 1))

\* path.basename (posix)
Basename(p) ==
    LET q == StripSlashes(p)
    IN  IF q = << "/" >> THEN << >>
        ELSE SubSeq(q, LastIndexOf(q, "/") + 2, Len(q))

(* ------------------------------ settings ------------------------------- *)

\* An image path that is absent (undefined).  Image paths are strings of the
\* model; the absent one and "" are the falsy ones.
UndefinedImage == "<undefined>"

\* An image path in a boolean context.
TruthyImage(img) == img # UndefinedImage /\ img # ""

\* PythonServiceSettings, the fields the background service and the key
\* handlers read: path, interval, useVenv and displayValues (undefined is
\* false), venvPath and the two (value, image) pairs.  The settings made here
\* have no displayValues and no pair.
MkSettings(p, i, u, v) ==
    [path |-> p, interval |-> i, useVenv |-> u, venvPath |-> v,
     displayValues |-> FALSE,
     value1 |-> Undefined, image1 |-> UndefinedImage,
     value2 |-> Undefined, image2 |-> UndefinedImage]

\* The settings s with displayValues d and the pairs (v1, i1) and (v2, i2).
WithOutput(s, d, v1, i1, v2, i2) ==
    [s EXCEPT !.displayValues = d, !.value1 = v1, !.image1 = i1,
              !.value2 = v2, !.image2 = i2]

ScriptS == << "/", "s", ".", "p", "y" >>

ScriptT == << "/", "t", ".", "p", "y" >>

VenvCfg == << "/", "v", "/", "c" >>

\* The settings objects the host delivers in the explored runs: complete
\* settings with a 2 s interval, mirrored output and two pairs, a script path
\* with an interval that is no number, and a valid 3 s interval without a
\* script path.
SettingsInputs ==
    { WithOutput(MkSettings(ScriptS, NumberValue(Fin(4)), FALSE, Undefined),
                 TRUE, << "1" >>, "on.png", << "0" >>, "off.png"),
      MkSettings(ScriptT, StringValue(<< "a", "b", "c" >>), TRUE, VenvCfg),
      MkSettings(Undefined, StringValue(<< " ", "3" >>), FALSE, Undefined) }

\* The default interval of normalizeSettings, in seconds.
DefaultInterval == 10

\* A normalization that keeps every finite interval, positive or not.
NormalizeIntervalAnySign(settings) ==
    LET intervalRaw ==
            IF settings.interval.type = "string"
            THEN StringToNumber(settings.interval.str)
            ELSE IF settings.interval.type = "number"
            THEN settings.interval.num
            ELSE NaN
    IN  IF settings.interval.type # "undefined" /\ IsFinite(intervalRaw)
        THEN intervalRaw
        ELSE Fin(2 * DefaultInterval)

\* PythonBackgroundService.normalizeSettings: the normalized interval.
NormalizeInterval(settings) ==
    LET intervalRaw ==
            IF settings.interval.type = "string"
            THEN StringToNumber(settings.interval.str)
            ELSE IF settings.interval.type = "number"
            THEN settings.interval.num
            ELSE NaN
    IN  IF /\ settings.interval.type # "undefined"
           /\ IsFinite(intervalRaw)
           /\ intervalRaw.x2 > 0
        THEN intervalRaw
        ELSE Fin(2 * DefaultInterval)

normalizeSettings(settings) ==
    [settings EXCEPT !.interval = NormalizeInterval(settings)]

\* PythonService.getInterval: the interval in half seconds, 0 for undefined.
getInterval(value) ==
    IF value.type = "number"
    THEN IF IsFinite(value.num) /\ value.num.x2 > 0 THEN value.num.x2 ELSE 0
    ELSE IF value.type = "string"
    THEN LET parsed == StringToNumber(Trim(value.str))
         IN  IF IsFinite(parsed) /\ parsed.x2 > 0 THEN parsed.x2 ELSE 0
    ELSE 0

\* checkSettingsComplete that looks at the script path alone.
checkSettingsPathOnly(settings) == Truthy(settings.path)

\* PythonService.checkSettingsComplete
checkSettingsComplete(settings) ==
    Truthy(settings.path) /\ getInterval(settings.interval) # 0

(* ------------------------------- state --------------------------------- *)

VARIABLES
    trackedActions, \* PythonBackgroundService.trackedActions
    state,          \* PythonBackgroundService.state
    timers,         \* the live interval timers of the event loop, by handle
    children,       \* the child processes that have not closed yet (a bag)
    live,           \* the keys that have appeared and not disappeared
    keySettings,    \* the settings the host stores for each key
    out,            \* the host commands issued by the last step
    calls,          \* the last two calls the host made, oldest first
    watch,          \* a stopwatch beside the program: the time since the
                    \* last start() and the executor invocations since
    fsys            \* the filesystem normalizeVenvPath queries, with a venv
                    \* path and what normalizing it once and twice returns

vars == << trackedActions, state, timers, children, live, keySettings, out,
           calls, watch, fsys >>

\* The calls after one more call.
Called(name) == << calls[2], name >>

\* The event object of a handler: ev.action.id and ev.payload.settings.
MkEvent(k, s) == [id |-> k, settings |-> s]

Events == { MkEvent(k, s) : k \in Keys, s \in SettingsInputs }

\* timerId of a tracked action that has none (undefined).
NoTimer == 0

\* TrackedAction
MkTracked(k, e, h) == [id |-> k, ev |-> e, timerId |-> h]

\* Host commands: ev.action.setImage / setTitle / showAlert.
SetImage(k, img) == [cmd |-> "setImage", id |-> k, image |-> img, title |-> << >>]

SetTitle(k, t) == [cmd |-> "setTitle", id |-> k, image |-> "", title |-> t]

ShowAlert(k) == [cmd |-> "showAlert", id |-> k, image |-> "", title |-> << >>]

NoSettings == MkSettings(Undefined, UndefinedValue, FALSE, Undefined)

(* ------------------------------- timers -------------------------------- *)

\* clearInterval: the timer is no longer live; an unknown handle is ignored.
clearInterval(tm, h) == [x \in (DOMAIN tm) \ {h} |-> tm[x]]

\* The identity of a new Timeout object: a handle that is neither live nor
\* still referenced by a tracked action.
FreshHandle(ta, tm) ==
    LET used == (DOMAIN tm) \cup { ta[i].timerId : i \in 1 .. Len(ta) }
    IN  CHOOSE h \in 1 .. (Cardinality(used) + 1) :
            /\ h \notin used
            /\ \A g \in 1 .. (h - 1) : g \in used

\* A delay that ignores the interval of the settings.
TimerPeriodDefault(ev) == 2 * DefaultInterval

\* The delay createTimer gives to setInterval, intervalSeconds * 1000 ms, in
\* steps of 500 ms.
TimerPeriod(ev) == normalizeSettings(ev.settings).interval.x2

\* PythonBackgroundService.createTimer: setInterval with a callback that
\* captures ev.  The result is the timer table with the new timer at handle
\* h; left is the time until the timer fires next.
createTimer(ev, h, tm) ==
    [x \in (DOMAIN tm) \cup {h} |->
        IF x = h
        THEN [ev |-> ev, period |-> TimerPeriod(ev), left |-> TimerPeriod(ev)]
        ELSE tm[x]]

(* ------------------------------ registry ------------------------------- *)

\* Array.prototype.findIndex on the id, 1-based; 0 when no entry matches.
FindIndex(ta, k) ==
    IF \E i \in 1 .. Len(ta) : ta[i].id = k
    THEN CHOOSE i \in 1 .. Len(ta) :
            ta[i].id = k /\ \A j \in 1 .. (i - 1) : ta[j].id # k
    ELSE 0

\* Array.prototype.splice(index): the entry and all entries after it go.
SpliceToEnd(ta, i) == SubSeq(ta, 1, i - 1)

\* Array.prototype.splice(index, 1)
Splice(ta, i) == SubSeq(ta, 1, i - 1) \o SubSeq(ta, i + 1, Len(ta))

\* registerAction with one slip: clearOld = FALSE leaves the previous timer
\* of a tracked id running, armNew = TRUE gives a new id a timer while the
\* service runs, oldEvent = TRUE creates the new timer of a tracked id with the
\* event stored before.
RegisterVariant(ta, tm, st, ev, clearOld, armNew, oldEvent) ==
    LET existingIndex == FindIndex(ta, ev.id)
    IN  IF existingIndex > 0
        THEN LET existing == ta[existingIndex]
                 tm1 == IF existing.timerId # NoTimer /\ clearOld
                        THEN clearInterval(tm, existing.timerId)
                        ELSE tm
                 h == FreshHandle(ta, tm1)
             IN  IF st = "running"
                 THEN [ta |-> [ta EXCEPT ![existingIndex] =
                                  MkTracked(existing.id, ev, h)],
                       tm |-> createTimer(IF oldEvent THEN existing.ev ELSE ev,
                                          h, tm1)]
                 ELSE [ta |-> [ta EXCEPT ![existingIndex] =
                                  MkTracked(existing.id, ev, existing.timerId)],
                       tm |-> tm1]
        ELSE IF st = "running" /\ armNew
        THEN [ta |-> Append(ta, MkTracked(ev.id, ev, FreshHandle(ta, tm))),
              tm |-> createTimer(ev, FreshHandle(ta, tm), tm)]
        ELSE [ta |-> Append(ta, MkTracked(ev.id, ev, NoTimer)), tm |-> tm]

registerActionLeaksTimer(ta, tm, st, ev) ==
    RegisterVariant(ta, tm, st, ev, FALSE, FALSE, FALSE)

registerActionArmsNew(ta, tm, st, ev) ==
    RegisterVariant(ta, tm, st, ev, TRUE, TRUE, FALSE)

registerActionOldEvent(ta, tm, st, ev) ==
    RegisterVariant(ta, tm, st, ev, TRUE, FALSE, TRUE)

\* PythonBackgroundService.registerAction: the table and the timers after.
registerAction(ta, tm, st, ev) ==
    LET existingIndex == FindIndex(ta, ev.id)
    IN  IF existingIndex > 0
        THEN LET existing == ta[existingIndex]
                 tm1 == IF existing.timerId # NoTimer
                        THEN clearInterval(tm, existing.timerId)
                        ELSE tm
                 h == FreshHandle(ta, tm1)
             IN  IF st = "running"
                 THEN [ta |-> [ta EXCEPT ![existingIndex] =
                                  MkTracked(existing.id, ev, h)],
                       tm |-> createTimer(ev, h, tm1)]
                 ELSE [ta |-> [ta EXCEPT ![existingIndex] =
                                  MkTracked(existing.id, ev, existing.timerId)],
                       tm |-> tm1]
        ELSE [ta |-> Append(ta, MkTracked(ev.id, ev, NoTimer)), tm |-> tm]

\* unregisterAction that removes the entry and leaves its timer running.
unregisterActionKeepsTimer(ta, tm, k) ==
    LET index == FindIndex(ta, k)
    IN  IF index > 0
        THEN [ta |-> Splice(ta, index), tm |-> tm]
        ELSE [ta |-> ta, tm |-> tm]

\* unregisterAction that cancels the timer and leaves the entry in the table.
unregisterActionKeepsEntry(ta, tm, k) ==
    LET index == FindIndex(ta, k)
    IN  IF index > 0 /\ ta[index].timerId # NoTimer
        THEN [ta |-> ta, tm |-> clearInterval(tm, ta[index].timerId)]
        ELSE [ta |-> ta, tm |-> tm]

\* PythonBackgroundService.unregisterAction
unregisterAction(ta, tm, k) ==
    LET index == FindIndex(ta, k)
    IN  IF index > 0
        THEN [ta |-> Splice(ta, index),
              tm |-> IF ta[index].timerId # NoTimer
                     THEN clearInterval(tm, ta[index].timerId)
                     ELSE tm]
        ELSE [ta |-> ta, tm |-> tm]

\* The forEach of start, from entry i on.
RECURSIVE StartFrom(_, _, _)
StartFrom(i, ta, tm) ==
    IF i > Len(ta) THEN [ta |-> ta, tm |-> tm]
    ELSE LET tracked == ta[i]
             tm1 == IF tracked.timerId # NoTimer
                    THEN clearInterval(tm, tracked.timerId)
                    ELSE tm
             h == FreshHandle(ta, tm1)
         IN  StartFrom(i + 1,
                       [ta EXCEPT ![i] = MkTracked(tracked.id, tracked.ev, h)],
                       createTimer(tracked.ev, h, tm1))

\* The forEach of a start that does not cancel the timer an entry has.
RECURSIVE StartKeepingFrom(_, _, _)
StartKeepingFrom(i, ta, tm) ==
    IF i > Len(ta) THEN [ta |-> ta, tm |-> tm]
    ELSE LET tracked == ta[i]
             h == FreshHandle(ta, tm)
         IN  StartKeepingFrom(i + 1,
                 [ta EXCEPT ![i] = MkTracked(tracked.id, tracked.ev, h)],
                 createTimer(tracked.ev, h, tm))

startKeepsOldTimers(ta, tm) == StartKeepingFrom(1, ta, tm)

\* PythonBackgroundService.start: the table and the timers after.
start(ta, tm) == StartFrom(1, ta, tm)

\* The forEach of stop, from entry i on.
RECURSIVE StopFrom(_, _, _)
StopFrom(i, ta, tm) ==
    IF i > Len(ta) THEN [ta |-> ta, tm |-> tm]
    ELSE LET tracked == ta[i]
         IN  IF tracked.timerId # NoTimer
             THEN StopFrom(i + 1,
                           [ta EXCEPT ![i] =
                               MkTracked(tracked.id, tracked.ev, NoTimer)],
                           clearInterval(tm, tracked.timerId))
             ELSE StopFrom(i + 1, ta, tm)

\* stop that clears the handles and cancels no timer.
stopKeepsTimers(ta, tm) == [ta |-> StopFrom(1, ta, tm).ta, tm |-> tm]

\* PythonBackgroundService.stop: the table and the timers after.
stop(ta, tm) == StopFrom(1, ta, tm)

\* The child process executeAction spawns for ev: its handlers capture ev
\* and the normalized settings.
MkChild(ev) == [ev |-> ev, settings |-> normalizeSettings(ev.settings)]

\* An executor that skips the call while a child of the same key is in flight.
executeActionAwaits(ch, ev) ==
    IF /\ Truthy(normalizeSettings(ev.settings).path)
       /\ \A c \in BagToSet(ch) : c.ev.id # ev.id
    THEN ch (+) SetToBag({MkChild(ev)})
    ELSE ch

\* PythonBackgroundService.executeAction: the children after the call.  A
\* child is spawned when the normalized settings have a script path.
executeAction(ch, ev) ==
    IF Truthy(normalizeSettings(ev.settings).path)
    THEN ch (+) SetToBag({MkChild(ev)})
    ELSE ch

(* --------------------------- child output ------------------------------ *)

\* The keys of pythonErrorMap, in the order of the object literal, and the
\* titles they map to.
KeySyntaxError ==
    << "S", "y", "n", "t", "a", "x", "E", "r", "r", "o", "r" >>

TitleSyntaxError ==
    << "P", "y", "t", "h", "o", "n", "\n", "S", "y", "n", "t", "a", "x",
       "\n", "E", "r", "r", "o", "r" >>

KeyNameError ==
    << "N", "a", "m", "e", "E", "r", "r", "o", "r" >>

TitleNameError ==
    << "P", "y", "t", "h", "o", "n", "\n", "N", "a", "m", "e", "\n",
       "E", "r", "r", "o", "r" >>

KeyTypeError ==
    << "T", "y", "p", "e", "E", "r", "r", "o", "r" >>

TitleTypeError ==
    << "P", "y", "t", "h", "o", "n", "\n", "T", "y", "p", "e", "\n",
       "E", "r", "r", "o", "r" >>

KeyValueError ==
    << "V", "a", "l", "u", "e", "E", "r", "r", "o", "r" >>

TitleValueError ==
    << "P", "y", "t", "h", "o", "n", "\n", "V", "a", "l", "u", "e",
       "\n", "E", "r", "r", "o", "r" >>

KeyZeroDivisionError ==
    << "Z", "e", "r", "o", "D", "i", "v", "i", "s", "i", "o", "n", "E",
       "r", "r", "o", "r" >>

TitleZeroDivisionError ==
    << "P", "y", "t", "h", "o", "n", "\n", "Z", "e", "r", "o", "D", "i",
       "v", "\n", "E", "r", "r", "o", "r" >>

KeyIndexError ==
    << "I", "n", "d", "e", "x", "E", "r", "r", "o", "r" >>

TitleIndexError ==
    << "P", "y", "t", "h", "o", "n", "\n", "I", "n", "d", "e", "x",
       "\n", "E", "r", "r", "o", "r" >>

KeyKeyError ==
    << "K", "e", "y", "E", "r", "r", "o", "r" >>

TitleKeyError ==
    << "P", "y", "t", "h", "o", "n", "\n", "K", "e", "y", "\n", "E",
       "r", "r", "o", "r" >>

KeyAttributeError ==
    << "A", "t", "t", "r", "i", "b", "u", "t", "e", "E", "r", "r", "o",
       "r" >>

TitleAttributeError ==
    << "P", "y", "t", "h", "o", "n", "\n", "A", "t", "t", "r", "i", "b",
       "u", "t", "e", "\n", "E", "r", "r", "o", "r" >>

KeyImportError ==
    << "I", "m", "p", "o", "r", "t", "E", "r", "r", "o", "r" >>

TitleImportError ==
    << "P", "y", "t", "h", "o", "n", "\n", "I", "m", "p", "o", "r", "t",
       "\n", "E", "r", "r", "o", "r" >>

KeyNoSuchFileOrDirectory ==
    << "N", "o", " ", "s", "u", "c", "h", " ", "f", "i", "l", "e", " ",
       "o", "r", " ", "d", "i", "r", "e", "c", "t", "o", "r", "y" >>

TitleNoSuchFileOrDirectory ==
    << "P", "y", "t", "h", "o", "n", "\n", "F", "i", "l", "e", "\n",
       "E", "r", "r", "o", "r" >>

KeyModuleNotFoundError ==
    << "M", "o", "d", "u", "l", "e", "N", "o", "t", "F", "o", "u", "n",
       "d", "E", "r", "r", "o", "r" >>

TitleModuleNotFoundError ==
    << "P", "y", "t", "h", "o", "n", "\n", "M", "o", "d", "u", "l", "e",
       "\n", "E", "r", "r", "o", "r" >>

KeyRuntimeError ==
    << "R", "u", "n", "t", "i", "m", "e", "E", "r", "r", "o", "r" >>

TitleRuntimeError ==
    << "P", "y", "t", "h", "o", "n", "\n", "R", "u", "n", "t", "i", "m",
       "e", "\n", "E", "r", "r", "o", "r" >>

KeyMemoryError ==
    << "M", "e", "m", "o", "r", "y", "E", "r", "r", "o", "r" >>

TitleMemoryError ==
    << "P", "y", "t", "h", "o", "n", "\n", "M", "e", "m", "o", "r", "y",
       "\n", "E", "r", "r", "o", "r" >>

KeyOverflowError ==
    << "O", "v", "e", "r", "f", "l", "o", "w", "E", "r", "r", "o", "r" >>

TitleOverflowError ==
    << "P", "y", "t", "h", "o", "n", "\n", "O", "v", "e", "r", "f", "l",
       "o", "w", "\n", "E", "r", "r", "o", "r" >>

KeySystemError ==
    << "S", "y", "s", "t", "e", "m", "E", "r", "r", "o", "r" >>

TitleSystemError ==
    << "P", "y", "t", "h", "o", "n", "\n", "S", "y", "s", "t", "e", "m",
       "\n", "E", "r", "r", "o", "r" >>

KeyMicrosoftStore ==
    << "M", "i", "c", "r", "o", "s", "o", "f", "t", " ", "S", "t", "o",
       "r", "e" >>

TitleMicrosoftStore ==
    << "P", "y", "t", "h", "o", "n", "\n", "n", "o", "t", " ", "f", "o",
       "u", "n", "d", "\n", "E", "r", "r", "o", "r" >>

\* pythonErrorMap as for ... in enumerates it.
pythonErrorMap ==
    << [key |-> KeySyntaxError, title |-> TitleSyntaxError],
       [key |-> KeyNameError, title |-> TitleNameError],
       [key |-> KeyTypeError, title |-> TitleTypeError],
       [key |-> KeyValueError, title |-> TitleValueError],
       [key |-> KeyZeroDivisionError, title |-> TitleZeroDivisionError],
       [key |-> KeyIndexError, title |-> TitleIndexError],
       [key |-> KeyKeyError, title |-> TitleKeyError],
       [key |-> KeyAttributeError, title |-> TitleAttributeError],
       [key |-> KeyImportError, title |-> TitleImportError],
       [key |-> KeyNoSuchFileOrDirectory, title |-> TitleNoSuchFileOrDirectory],
       [key |-> KeyModuleNotFoundError, title |-> TitleModuleNotFoundError],
       [key |-> KeyRuntimeError, title |-> TitleRuntimeError],
       [key |-> KeyMemoryError, title |-> TitleMemoryError],
       [key |-> KeyOverflowError, title |-> TitleOverflowError],
       [key |-> KeySystemError, title |-> TitleSystemError],
       [key |-> KeyMicrosoftStore, title |-> TitleMicrosoftStore] >>

\* The title of a message that matches no key.
OtherIssue ==
    << "p", "y", "t", "h", "o", "n", "\n", "o", "t", "h", "e", "r",
       "\n", "i", "s", "s", "u", "e" >>

\* value ?? "": the absent value is the empty string.
OrEmpty(v) == IF v = Undefined THEN << >> ELSE v

\* String.prototype.replace(/(?:\r\n|\r|\n)/g, " ")
RECURSIVE NewlinesToSpaces(_)
NewlinesToSpaces(s) ==
    IF s = << >> THEN << >>
    ELSE IF Len(s) > 1 /\ s[1] = "\r" /\ s[2] = "\n"
    THEN << " " >> \o NewlinesToSpaces(SubSeq(s, 3, Len(s)))
    ELSE IF s[1] \in {"\r", "\n"}
    THEN << " " >> \o NewlinesToSpaces(Tail(s))
    ELSE << s[1] >> \o NewlinesToSpaces(Tail(s))

\* The for ... in loop of the stderr handler from key i on: the title of the
\* first key that errorString includes.
RECURSIVE ErrorTitleFrom(_, _)
ErrorTitleFrom(i, errorString) ==
    IF i > Len(pythonErrorMap) THEN OtherIssue
    ELSE IF Includes(errorString, pythonErrorMap[i].key)
    THEN pythonErrorMap[i].title
    ELSE ErrorTitleFrom(i + 1, errorString)

\* A stderr handler whose loop does not break: the last matching key wins.
RECURSIVE ErrorTitleNoBreak(_, _)
ErrorTitleNoBreak(i, errorString) ==
    IF i > Len(pythonErrorMap) THEN OtherIssue
    ELSE LET later == ErrorTitleNoBreak(i + 1, errorString)
         IN  IF later # OtherIssue THEN later
             ELSE IF Includes(errorString, pythonErrorMap[i].key)
             THEN pythonErrorMap[i].title
             ELSE OtherIssue

stderrDataNoBreak(ev, data) ==
    LET errorString == NewlinesToSpaces(Trim(data))
    IN  << SetImage(ev.id, "imgs/actions/pyServiceIconFail.png"),
           SetTitle(ev.id, ErrorTitleNoBreak(1, errorString)),
           ShowAlert(ev.id) >>

\* The stderr "data" handler of executeAction: the commands it issues.
stderrData(ev, data) ==
    LET errorString == NewlinesToSpaces(Trim(data))
    IN  << SetImage(ev.id, "imgs/actions/pyServiceIconFail.png"),
           SetTitle(ev.id, ErrorTitleFrom(1, errorString)),
           ShowAlert(ev.id) >>

\* A stdout handler that sets the title only when no pair matches.
stdoutDataTitleElse(ev, settings, data) ==
    LET output == Trim(data)
    IN  IF TruthyImage(settings.image1) /\ output = OrEmpty(settings.value1)
        THEN << SetImage(ev.id, settings.image1) >>
        ELSE IF TruthyImage(settings.image2)
                /\ output = OrEmpty(settings.value2)
        THEN << SetImage(ev.id, settings.image2) >>
        ELSE (IF settings.displayValues THEN << SetTitle(ev.id, output) >>
              ELSE << >>)
             \o << SetImage(ev.id, "imgs/actions/pyServiceIcon.png") >>

\* The stdout "data" handler of executeAction: the commands it issues.
stdoutData(ev, settings, data) ==
    LET output == Trim(data)
    IN  (IF settings.displayValues THEN << SetTitle(ev.id, output) >>
         ELSE << >>)
        \o << SetImage(ev.id,
                 IF TruthyImage(settings.image1)
                    /\ output = OrEmpty(settings.value1)
                 THEN settings.image1
                 ELSE IF TruthyImage(settings.image2)
                         /\ output = OrEmpty(settings.value2)
                 THEN settings.image2
                 ELSE "imgs/actions/pyServiceIcon.png") >>

(* --------------------------- key handlers ------------------------------ *)

\* What fs.existsSync / fs.statSync find at a path.
FileKinds == {"file", "directory", "missing"}

\* A normalization that returns the parent of every path.
normalizeVenvPathAlwaysParent(venvPath, kind) == Dirname(venvPath)

\* PythonService.normalizeVenvPath, kind being what the filesystem holds at
\* venvPath when it is queried.
normalizeVenvPath(venvPath, kind) ==
    IF kind = "file" THEN Dirname(venvPath) ELSE venvPath

\* PythonService.getFileNameFromPath
getFileNameFromPath(path) ==
    SubSeq(path, LastIndexOf(path, "/") + 2, Len(path))

\* The image and title onWillAppear and onDidReceiveSettings set for a key.
AppearCommands(k, settings, kind) ==
    IF Truthy(settings.path) /\ Includes(settings.path, << ".", "p", "y" >>)
    THEN LET venvname ==
                 IF settings.useVenv /\ Truthy(settings.venvPath)
                 THEN << "v", "e", "n", "v", ":", "\n", " " >>
                      \o Basename(normalizeVenvPath(settings.venvPath, kind))
                      \o << "\n" >>
                 ELSE << >>
         IN  << SetImage(k, "imgs/actions/pyServiceIcon.png"),
                SetTitle(k, venvname \o getFileNameFromPath(settings.path)) >>
    ELSE << >>

\* The filesystem is queried only for a venv path in use.
KindsQueried(settings) ==
    IF /\ Truthy(settings.path) /\ Includes(settings.path, << ".", "p", "y" >>)
       /\ settings.useVenv /\ Truthy(settings.venvPath)
    THEN FileKinds
    ELSE {"missing"}

\* PythonService.onWillAppear
OnWillAppear(k) ==
    LET ev == MkEvent(k, keySettings[k])
        r == IF checkSettingsComplete(ev.settings)
             THEN registerAction(trackedActions, timers, state, ev)
             ELSE [ta |-> trackedActions, tm |-> timers]
    IN  /\ k \notin live
        /\ live' = live \cup {k}
        /\ \E kind \in KindsQueried(ev.settings) :
               out' = AppearCommands(k, ev.settings, kind)
        /\ trackedActions' = r.ta
        /\ timers' = r.tm
        /\ calls' = Called("onWillAppear")
        /\ UNCHANGED << state, children, keySettings >>

\* PythonService.onDidReceiveSettings, the host having stored settings s.
OnDidReceiveSettings(k, s) ==
    LET ev == MkEvent(k, s)
        r == registerAction(trackedActions, timers, state, ev)
    IN  /\ k \in live
        /\ keySettings' = [keySettings EXCEPT ![k] = s]
        /\ \E kind \in KindsQueried(s) : out' = AppearCommands(k, s, kind)
        /\ trackedActions' = r.ta
        /\ timers' = r.tm
        /\ calls' = Called("onDidReceiveSettings")
        /\ UNCHANGED << state, children, live >>

\* PythonService.onWillDisappear
OnWillDisappear(k) ==
    LET r == unregisterAction(trackedActions, timers, k)
    IN  /\ k \in live
        /\ live' = live \ {k}
        /\ trackedActions' = r.ta
        /\ timers' = r.tm
        /\ out' = << >>
        /\ calls' = Called("onWillDisappear")
        /\ UNCHANGED << state, children, keySettings >>

\* The commands of start and stop.
StartCommands(k) == << SetImage(k, "imgs/actions/pyServiceRunning.png") >>

StopCommands(k) == << SetImage(k, "imgs/actions/pyServiceStopped.png") >>

\* PythonService.onKeyDown
OnKeyDown(k) ==
    LET settings == keySettings[k]
        isRunning == state = "running"
        r == IF isRunning THEN stop(trackedActions, timers)
             ELSE IF checkSettingsComplete(settings)
             THEN start(trackedActions, timers)
             ELSE [ta |-> trackedActions, tm |-> timers]
    IN  /\ k \in live
        /\ trackedActions' = r.ta
        /\ timers' = r.tm
        /\ state' = IF isRunning THEN "stopped"
                    ELSE IF checkSettingsComplete(settings) THEN "running"
                    ELSE state
        /\ out' = IF isRunning THEN StopCommands(k)
                  ELSE IF checkSettingsComplete(settings) THEN StartCommands(k)
                  ELSE << ShowAlert(k) >>
        /\ calls' = Called("onKeyDown")
        /\ UNCHANGED << children, live, keySettings >>

(* ------------------------------ event loop ----------------------------- *)

\* A timer fires: the callback createTimer gave to setInterval runs
\* executeAction with the event it captured, and the timer is due again one
\* period later.
\* Runs with more than cap children in flight are not explored.
TickWithin(h, cap) ==
    /\ h \in DOMAIN timers
    /\ timers[h].left = 0
    /\ BagCardinality(executeAction(children, timers[h].ev)) <= cap
    /\ children' = executeAction(children, timers[h].ev)
    /\ timers' = [timers EXCEPT ![h].left = timers[h].period]
    /\ out' = << >>
    /\ UNCHANGED << trackedActions, state, live, keySettings, calls >>

Tick(h) == TickWithin(h, MaxChildren)

\* The time until the next timer is due, 0 when no timer is live.
NextDue ==
    IF DOMAIN timers = {} THEN 0
    ELSE CHOOSE d \in { timers[h].left : h \in DOMAIN timers } :
             \A h \in DOMAIN timers : d <= timers[h].left

\* The event loop is idle for d steps, no timer being due before.
Sleep(d) ==
    /\ d \in 1 .. NextDue
    /\ timers' = [h \in DOMAIN timers |->
                    [timers[h] EXCEPT !.left = timers[h].left - d]]
    /\ out' = << >>
    /\ UNCHANGED << trackedActions, state, children, live, keySettings,
                    calls >>

\* The close event of a child process: the child is gone, nothing else.
ChildClose(c) ==
    /\ BagIn(c, children)
    /\ children' = children (-) SetToBag({c})
    /\ out' = << >>
    /\ UNCHANGED << trackedActions, state, timers, live, keySettings,
                    calls >>

\* The chunks a child writes in the explored runs of the registry.
StdoutSample == { << " ", "1", "\n" >> }

StderrSample == { << "o", "o", "p", "s", "\n" >> }

\* A "data" event of the stdout of a child process: the handler runs with
\* the event and the settings executeAction captured.
ChildStdout(c, data) ==
    /\ BagIn(c, children)
    /\ out' = stdoutData(c.ev, c.settings, data)
    /\ UNCHANGED << trackedActions, state, timers, children, live,
                    keySettings, calls >>

\* A stderr handler that returns at once unless the service runs and the key
\* of the child is tracked.
ChildStderrGuarded(c, data) ==
    /\ BagIn(c, children)
    /\ out' = IF /\ state = "running"
                 /\ \E i \in 1 .. Len(trackedActions) :
                        trackedActions[i].id = c.ev.id
              THEN stderrData(c.ev, data)
              ELSE << >>
    /\ UNCHANGED << trackedActions, state, timers, children, live,
                    keySettings, calls >>

\* A "data" event of the stderr of a child process.
ChildStderr(c, data) ==
    /\ BagIn(c, children)
    /\ out' = stderrData(c.ev, data)
    /\ UNCHANGED << trackedActions, state, timers, children, live,
                    keySettings, calls >>

\* No filesystem looked at.
NoFiles == [files |-> << >>, path |-> Undefined, once |-> Undefined,
            twice |-> Undefined]

(* ------------------------- the plugin on the host ---------------------- *)

Init ==
    /\ trackedActions = << >>
    /\ state = "stopped"
    /\ timers = << >>
    /\ children = EmptyBag
    /\ live = {}
    /\ keySettings \in [Keys -> SettingsInputs]
    /\ out = << >>
    /\ calls = << "", "" >>
    /\ watch = [now |-> 0, invocations |-> << >>]
    /\ fsys = NoFiles

\* The event loop sleeps until the next timer is due.
Next ==
    \/ \E k \in Keys : OnWillAppear(k) /\ UNCHANGED << watch, fsys >>
    \/ \E k \in Keys, s \in SettingsInputs :
           OnDidReceiveSettings(k, s) /\ UNCHANGED << watch, fsys >>
    \/ \E k \in Keys : OnWillDisappear(k) /\ UNCHANGED << watch, fsys >>
    \/ \E k \in Keys : OnKeyDown(k) /\ UNCHANGED << watch, fsys >>
    \/ \E h \in DOMAIN timers : Tick(h) /\ UNCHANGED << watch, fsys >>
    \/ Sleep(NextDue) /\ UNCHANGED << watch, fsys >>
    \/ \E c \in BagToSet(children) :
           ChildClose(c) /\ UNCHANGED << watch, fsys >>

\* The key events of the host, the timers and the children of the plugin.
Spec == Init /\ [][Next]_vars

(* ------------------- the registry called directly ---------------------- *)

RegisterAction(ev) ==
    LET r == registerAction(trackedActions, timers, state, ev)
    IN  /\ trackedActions' = r.ta
        /\ timers' = r.tm
        /\ out' = << >>
        /\ calls' = Called("registerAction")
        /\ UNCHANGED << state, children, live, keySettings >>

UnregisterAction(k) ==
    LET r == unregisterAction(trackedActions, timers, k)
    IN  /\ trackedActions' = r.ta
        /\ timers' = r.tm
        /\ out' = << >>
        /\ calls' = Called("unregisterAction")
        /\ UNCHANGED << state, children, live, keySettings >>

Start(k) ==
    LET r == start(trackedActions, timers)
    IN  /\ trackedActions' = r.ta
        /\ timers' = r.tm
        /\ state' = "running"
        /\ out' = StartCommands(k)
        /\ calls' = Called("start")
        /\ UNCHANGED << children, live, keySettings >>

Stop(k) ==
    LET r == stop(trackedActions, timers)
    IN  /\ trackedActions' = r.ta
        /\ timers' = r.tm
        /\ state' = "stopped"
        /\ out' = StopCommands(k)
        /\ calls' = Called("stop")
        /\ UNCHANGED << children, live, keySettings >>

\* The registry after construction, no key on the host.
RegistryInit ==
    /\ trackedActions = << >>
    /\ state = "stopped"
    /\ timers = << >>
    /\ children = EmptyBag
    /\ live = {}
    /\ keySettings = [k \in Keys |-> NoSettings]
    /\ out = << >>
    /\ calls = << "", "" >>
    /\ watch = [now |-> 0, invocations |-> << >>]
    /\ fsys = NoFiles

RegistryNext ==
    \/ \E ev \in Events : RegisterAction(ev) /\ UNCHANGED << watch, fsys >>
    \/ \E k \in Keys : UnregisterAction(k) /\ UNCHANGED << watch, fsys >>
    \/ \E k \in Keys : Start(k) /\ UNCHANGED << watch, fsys >>
    \/ \E k \in Keys : Stop(k) /\ UNCHANGED << watch, fsys >>
    \/ \E h \in DOMAIN timers : Tick(h) /\ UNCHANGED << watch, fsys >>
    \/ Sleep(NextDue) /\ UNCHANGED << watch, fsys >>
    \/ \E c \in BagToSet(children) :
           ChildClose(c) /\ UNCHANGED << watch, fsys >>

\* Any sequence of registerAction / unregisterAction / start / stop calls,
\* with the timer ticks in between.
RegistrySpec == RegistryInit /\ [][RegistryNext]_vars

(* --------------- the registry and the output of the children ------------ *)

\* The events whose settings have a script path and a valid interval.
ChildEvents ==
    { ev \in Events : checkSettingsComplete(ev.settings) }

ChildNext ==
    \/ \E ev \in ChildEvents : RegisterAction(ev) /\ UNCHANGED << watch, fsys >>
    \/ \E k \in Keys : UnregisterAction(k) /\ UNCHANGED << watch, fsys >>
    \/ \E k \in Keys : Start(k) /\ UNCHANGED << watch, fsys >>
    \/ \E k \in Keys : Stop(k) /\ UNCHANGED << watch, fsys >>
    \/ \E h \in DOMAIN timers : Tick(h) /\ UNCHANGED << watch, fsys >>
    \/ Sleep(NextDue) /\ UNCHANGED << watch, fsys >>
    \/ \E c \in BagToSet(children), data \in StdoutSample :
           ChildStdout(c, data) /\ UNCHANGED << watch, fsys >>
    \/ \E c \in BagToSet(children), data \in StderrSample :
           ChildStderr(c, data) /\ UNCHANGED << watch, fsys >>
    \/ \E c \in BagToSet(children) :
           ChildClose(c) /\ UNCHANGED << watch, fsys >>

\* The registry calls, the ticks, and the chunks the children write until
\* they close.
ChildSpec == RegistryInit /\ [][ChildNext]_vars

(* ------------------------ the executor and its child -------------------- *)

\* A division by zero.
ErrZeroDivision ==
    << "Z", "e", "r", "o", "D", "i", "v", "i", "s", "i", "o", "n", "E",
       "r", "r", "o", "r", ":", " ", "x", "\n" >>

\* Two errors in one chunk, the division by zero second.
ErrNameThenZeroDivision ==
    << "N", "a", "m", "e", "E", "r", "r", "o", "r", "\r", "\n", "Z",
       "e", "r", "o", "D", "i", "v", "i", "s", "i", "o", "n", "E", "r",
       "r", "o", "r" >>

\* A message with none of the keys.
ErrOops ==
    << "o", "o", "p", "s", "\n" >>

\* A key broken over two lines.
ErrNoSuchFileTwoLines ==
    << "N", "o", " ", "s", "u", "c", "h", " ", "f", "i", "l", "e", "\n",
       "o", "r", " ", "d", "i", "r", "e", "c", "t", "o", "r", "y" >>

ErrKey ==
    << " ", "K", "e", "y", "E", "r", "r", "o", "r" >>

\* The chunks a child writes to stderr.
StderrChunks ==
    { ErrZeroDivision, ErrNameThenZeroDivision, ErrOops,
      ErrNoSuchFileTwoLines, ErrKey }

\* The chunks a child writes to stdout.
StdoutChunks ==
    { << " ", "1", "\n" >>, << "0" >>, << "\n" >>, << "x" >> }

\* The output settings of a key: mirrored output with two pairs, two pairs
\* with one value, a first pair without image, a first pair without value,
\* pairs with empty images, and none.
StreamSettings ==
    LET s == MkSettings(ScriptS, NumberValue(Fin(4)), FALSE, Undefined)
    IN  { WithOutput(s, TRUE, << "1" >>, "on.png", << "0" >>, "off.png"),
          WithOutput(s, FALSE, << "1" >>, "on.png", << "1" >>, "off.png"),
          WithOutput(s, FALSE, << "1" >>, UndefinedImage, << "1" >>, "off.png"),
          WithOutput(s, TRUE, Undefined, "on.png", << "x" >>, "off.png"),
          WithOutput(s, TRUE, << "1" >>, "", << "0" >>, ""),
          s,
          MkSettings(Undefined, NumberValue(Fin(4)), FALSE, Undefined) }

StreamEvents == { MkEvent(k, s) : k \in Keys, s \in StreamSettings }

\* executeAction(ev) is called.
ExecuteAction(ev) ==
    /\ BagCardinality(executeAction(children, ev)) <= MaxChildren
    /\ children' = executeAction(children, ev)
    /\ out' = << >>
    /\ calls' = Called("executeAction")
    /\ UNCHANGED << trackedActions, state, timers, live, keySettings >>

StreamNext ==
    \/ \E ev \in StreamEvents : ExecuteAction(ev) /\ UNCHANGED << watch, fsys >>
    \/ \E c \in BagToSet(children), data \in StdoutChunks :
           ChildStdout(c, data) /\ UNCHANGED << watch, fsys >>
    \/ \E c \in BagToSet(children), data \in StderrChunks :
           ChildStderr(c, data) /\ UNCHANGED << watch, fsys >>
    \/ \E c \in BagToSet(children) :
           ChildClose(c) /\ UNCHANGED << watch, fsys >>

\* The executor called for any key, and the chunks its children write.
StreamSpec == RegistryInit /\ [][StreamNext]_vars

(* ---------------------- the registry and the intervals ------------------ *)

\* The intervals a key is registered with: 5, "5", 7.5, "7.5", 0, -3, "-3",
\* "abc", "", undefined, Infinity and NaN.
IntervalInputs ==
    { NumberValue(Fin(10)), StringValue(<< "5" >>),
      NumberValue(Fin(15)), StringValue(<< "7", ".", "5" >>),
      NumberValue(Fin(0)), NumberValue(Fin(0 - 6)),
      StringValue(<< "-", "3" >>), StringValue(<< "a", "b", "c" >>),
      StringValue(<< >>), UndefinedValue,
      NumberValue(Infinity), NumberValue(NaN) }

\* One key is registered, with a script path and any of the intervals.
IntervalKey == CHOOSE k \in Keys : TRUE

IntervalEvents ==
    { MkEvent(IntervalKey, MkSettings(ScriptS, i, FALSE, Undefined)) :
        i \in IntervalInputs }

IntervalNext ==
    \/ \E ev \in IntervalEvents : RegisterAction(ev) /\ UNCHANGED << watch, fsys >>
    \/ UnregisterAction(IntervalKey) /\ UNCHANGED << watch, fsys >>
    \/ Start(IntervalKey) /\ UNCHANGED << watch, fsys >>
    \/ Stop(IntervalKey) /\ UNCHANGED << watch, fsys >>
    \/ \E h \in DOMAIN timers : Tick(h) /\ UNCHANGED << watch, fsys >>
    \/ Sleep(NextDue) /\ UNCHANGED << watch, fsys >>
    \/ \E c \in BagToSet(children) :
           ChildClose(c) /\ UNCHANGED << watch, fsys >>

\* The registry calls for one key whose interval is anything the host can
\* store.
IntervalSpec == RegistryInit /\ [][IntervalNext]_vars

(* --------------------- venv paths on a filesystem ----------------------- *)

VenvDir == << "/", "v" >>

Root == << "/" >>

RelativeCfg == << "c" >>

Cwd == << "." >>

\* The paths without a trailing slash, closed under path.dirname.
FilePaths == { Root, Cwd, VenvDir, VenvCfg, RelativeCfg }

\* The venv paths of the settings: the paths above, a path with a trailing
\* slash and the empty path.
VenvPaths == FilePaths \cup { VenvCfg \o << "/" >>, << >> }

\* The states of the filesystem: the root and the working directory are
\* directories, and a path exists only in a directory.
FileSystems ==
    { f \in [FilePaths -> FileKinds] :
        /\ f[Root] = "directory"
        /\ f[Cwd] = "directory"
        /\ f[VenvCfg] # "missing" => f[VenvDir] = "directory" }

\* What fs.existsSync and fs.statSync find at path p: nothing at the empty
\* path, and nothing at a path with a trailing slash that is no directory.
KindAt(files, p) ==
    IF p = << >> THEN "missing"
    ELSE IF StripSlashes(p) # p /\ files[StripSlashes(p)] = "file"
    THEN "missing"
    ELSE files[StripSlashes(p)]

\* normalizeVenvPath(venvPath) is called.
NormalizeOnce ==
    /\ fsys.once = Undefined
    /\ fsys' = [fsys EXCEPT !.once =
                    normalizeVenvPath(fsys.path, KindAt(fsys.files, fsys.path))]
    /\ UNCHANGED << trackedActions, state, timers, children, live,
                    keySettings, out, calls, watch >>

\* normalizeVenvPath is called with the path the first call returned.
NormalizeTwice ==
    /\ fsys.once # Undefined
    /\ fsys.twice = Undefined
    /\ fsys' = [fsys EXCEPT !.twice =
                    normalizeVenvPath(fsys.once, KindAt(fsys.files, fsys.once))]
    /\ UNCHANGED << trackedActions, state, timers, children, live,
                    keySettings, out, calls, watch >>

VenvInit ==
    /\ trackedActions = << >>
    /\ state = "stopped"
    /\ timers = << >>
    /\ children = EmptyBag
    /\ live = {}
    /\ keySettings = [k \in Keys |-> NoSettings]
    /\ out = << >>
    /\ calls = << "", "" >>
    /\ watch = [now |-> 0, invocations |-> << >>]
    /\ fsys \in { [files |-> f, path |-> p, once |-> Undefined,
                    twice |-> Undefined] :
                      f \in FileSystems, p \in VenvPaths }

VenvNext == NormalizeOnce \/ NormalizeTwice

\* Any venv path normalized, and normalized again, on any filesystem.
VenvSpec == VenvInit /\ [][VenvNext]_vars

(* -------------------- the registry beside a stopwatch ------------------- *)

\* Last instant of the stopwatch, in steps of 500 ms.
MaxTime == 12

\* Largest number of child processes in flight beside the stopwatch.
MaxInFlight == 2

\* An executor invocation as the stopwatch records it.
Invocation(ev, t) == [id |-> ev.id, settings |-> ev.settings, at |-> t]

\* The keys are registered before the service is first started.
ClockRegister(ev) ==
    /\ \A i \in 1 .. 2 : calls[i] \in {"", "registerAction"}
    /\ RegisterAction(ev)
    /\ UNCHANGED << watch, fsys >>

\* start() restarts the stopwatch: watch.now is the time since start().
ClockStart(k) ==
    /\ Start(k)
    /\ watch' = [now |-> 0, invocations |-> << >>]
    /\ UNCHANGED fsys

ClockStop(k) == Stop(k) /\ UNCHANGED << watch, fsys >>

ClockTick(h) ==
    /\ TickWithin(h, MaxInFlight)
    /\ watch' = [watch EXCEPT !.invocations =
                    Append(@, Invocation(timers[h].ev, watch.now))]
    /\ UNCHANGED fsys

\* Time passes by d steps, no timer being due before.
ClockSleep(d) ==
    /\ watch.now + d <= MaxTime
    /\ Sleep(d)
    /\ watch' = [watch EXCEPT !.now = @ + d]
    /\ UNCHANGED fsys

\* Time passes by one step while no timer is live.
ClockIdle ==
    /\ DOMAIN timers = {}
    /\ watch.now < MaxTime
    /\ watch' = [watch EXCEPT !.now = @ + 1]
    /\ UNCHANGED << trackedActions, state, timers, children, live,
                    keySettings, out, calls, fsys >>

ClockChildClose(c) == ChildClose(c) /\ UNCHANGED << watch, fsys >>

ClockNext ==
    \/ \E ev \in Events : ClockRegister(ev)
    \/ \E k \in Keys : ClockStart(k)
    \/ \E k \in Keys : ClockStop(k)
    \/ \E h \in DOMAIN timers : ClockTick(h)
    \/ \E d \in 1 .. MaxTime : ClockSleep(d)
    \/ ClockIdle
    \/ \E c \in BagToSet(children) : ClockChildClose(c)

\* Keys registered, then start() and stop() at any time, every instant of
\* the stopwatch visited.
ClockSpec == RegistryInit /\ [][ClockNext]_vars

(* ------------------------ what the claims speak of ---------------------- *)

\* The positions of the tracked table that hold id k.
EntriesOf(ta, k) == { i \in 1 .. Len(ta) : ta[i].id = k }

IsTracked(ta, k) == EntriesOf(ta, k) # {}

\* A timer handle exists for id k: an entry of k has a timerId.
HandleExists(ta, k) == \E i \in EntriesOf(ta, k) : ta[i].timerId # NoTimer

\* The live timers whose callback runs for id k.
LiveTimersOf(tm, k) == { h \in DOMAIN tm : tm[h].ev.id = k }

\* No entry of the table has a timerId.
AllHandlesCleared(ta) == \A i \in 1 .. Len(ta) : ta[i].timerId = NoTimer

(* C1: after every sequence of registerAction / unregisterAction / start /
   stop calls, for every id, a timer handle exists for the id if and only if
   the service is running and the id is tracked. *)
C1_HandleIffRunningAndTracked ==
    \A k \in Keys :
        HandleExists(trackedActions, k)
            <=> (state = "running" /\ IsTracked(trackedActions, k))

(* C2: start() followed immediately by stop() leaves the state stopped,
   every tracked entry's timer handle cleared and no live interval timer,
   however many entries are tracked. *)
C2_StartThenStopLeavesNoTimer ==
    calls = << "start", "stop" >>
        => /\ state = "stopped"
           /\ AllHandlesCleared(trackedActions)
           /\ DOMAIN timers = {}

\* start() then stop() have run with two entries tracked.
C2_Witness ==
    /\ calls = << "start", "stop" >>
    /\ Len(trackedActions) = 2
    /\ state = "stopped"
    /\ DOMAIN timers = {}

(* C3: registerAction for an id that is already tracked keeps the number of
   entries and the single entry of the id, and cancels the entry's previous
   timer; while running the entry is left with exactly one live timer, a new
   one, at the interval of the new settings; while stopped the call only
   replaces the stored event and the entry has no timer. *)
C3_ReRegisterReplaces ==
    [][\A ev \in Events :
         (RegisterAction(ev) /\ IsTracked(trackedActions, ev.id))
         => LET i == FindIndex(trackedActions, ev.id)
                old == trackedActions[i].timerId
            IN  /\ Len(trackedActions') = Len(trackedActions)
                /\ EntriesOf(trackedActions', ev.id) = {i}
                /\ trackedActions'[i].ev = ev
                /\ old # NoTimer => old \notin DOMAIN timers'
                /\ IF state = "running"
                   THEN /\ trackedActions'[i].timerId # NoTimer
                        /\ trackedActions'[i].timerId # old
                        /\ LiveTimersOf(timers', ev.id)
                               = {trackedActions'[i].timerId}
                        /\ timers'[trackedActions'[i].timerId].period
                               = NormalizeInterval(ev.settings).x2
                        /\ timers'[trackedActions'[i].timerId].left
                               = NormalizeInterval(ev.settings).x2
                   ELSE /\ trackedActions'[i].timerId = NoTimer
                        /\ LiveTimersOf(timers', ev.id) = {}
                        /\ timers' = timers]_vars

\* The only tracked id has been registered twice in a row while running, the
\* second time with an invalid interval: its timer runs at the default.
C3_Witness ==
    /\ calls = << "registerAction", "registerAction" >>
    /\ state = "running"
    /\ Len(trackedActions) = 1
    /\ trackedActions[1].timerId # NoTimer
    /\ DOMAIN timers = {trackedActions[1].timerId}
    /\ timers[trackedActions[1].timerId].period = 2 * DefaultInterval

(* C4: unregisterAction(id) for a tracked id cancels the entry's timer and
   removes the entry; for an id that is not tracked it changes neither the
   table nor any timer nor the run-state; a second call right after the
   first changes nothing. *)
C4_UnregisterRemovesOrNoOp ==
    [][\A k \in Keys :
         UnregisterAction(k)
         => /\ state' = state
            /\ ~ IsTracked(trackedActions', k)
            /\ LiveTimersOf(timers', k) = {}
            /\ unregisterAction(trackedActions', timers', k)
                   = [ta |-> trackedActions', tm |-> timers']
            /\ IF IsTracked(trackedActions, k)
               THEN /\ trackedActions'
                           = Splice(trackedActions,
                                    FindIndex(trackedActions, k))
                    /\ \A h \in DOMAIN timers :
                           timers[h].ev.id # k
                               => h \in DOMAIN timers' /\ timers'[h] = timers[h]
               ELSE /\ trackedActions' = trackedActions
                    /\ timers' = timers]_vars

\* Two unregisterAction calls in a row, one of them for an id that was not
\* tracked, while the other key keeps its live timer.
C4_Witness ==
    /\ calls = << "unregisterAction", "unregisterAction" >>
    /\ state = "running"
    /\ Len(trackedActions) = 1
    /\ trackedActions[1].timerId \in DOMAIN timers

(* C5: registerAction for an id that is not tracked appends exactly one entry
   without a timer handle, in either run-state, and touches no timer; an
   entry gets a timer handle only by start() or by a registerAction of its id
   while it is tracked and the service is running. *)
C5_NewEntryHasNoTimer ==
    [][/\ \A ev \in Events :
            (RegisterAction(ev) /\ ~ IsTracked(trackedActions, ev.id))
            => /\ trackedActions'
                      = Append(trackedActions, MkTracked(ev.id, ev, NoTimer))
               /\ timers' = timers
               /\ state' = state
       /\ \A k \in Keys :
            (~ HandleExists(trackedActions, k) /\ HandleExists(trackedActions', k))
            => \/ \E j \in Keys : Start(j)
               \/ /\ state = "running"
                  /\ IsTracked(trackedActions, k)
                  /\ \E ev \in Events : ev.id = k /\ RegisterAction(ev)]_vars

\* A new id registered right after start(): tracked, running, and no timer.
C5_Witness ==
    /\ calls = << "start", "registerAction" >>
    /\ state = "running"
    /\ Len(trackedActions) = 1
    /\ trackedActions[1].timerId = NoTimer
    /\ DOMAIN timers = {}

\* The invocations the stopwatch recorded for id k, oldest first.
InvocationsOf(k) ==
    LET IsOfK(v) == v.id = k
    IN  SelectSeq(watch.invocations, IsOfK)

\* The settings name a script path and a finite positive number as interval.
HasPathAndNumber(settings) ==
    /\ Truthy(settings.path)
    /\ settings.interval.type = "number"
    /\ settings.interval.num.cls = "fin"
    /\ settings.interval.num.x2 > 0

\* While the service runs, the invocations of an entry with a script path and
\* interval n are those of the instants n, 2n, ... since start(), each with
\* the entry's settings; the one of the present instant may still be due.
C6_Invocations ==
    state = "running"
    => \A i \in 1 .. Len(trackedActions) :
          LET e == trackedActions[i]
              n == e.ev.settings.interval.num.x2
              mine == InvocationsOf(e.id)
          IN  HasPathAndNumber(e.ev.settings)
              => /\ \A j \in 1 .. Len(mine) :
                       /\ mine[j].at = j * n
                       /\ mine[j].settings = e.ev.settings
                 /\ \/ Len(mine) = watch.now \div n
                    \/ /\ Len(mine) = (watch.now \div n) - 1
                       /\ watch.now % n = 0

(* C6: with a key registered with a script path and interval n and the
   service started at t0, the executor is invoked for the key with the key's
   settings at t0 + n, t0 + 2n, ... while the service runs (interval 2: two
   invocations within 5 seconds); after stop() no tick invokes the executor
   until the next start(). *)
C6_TicksEveryInterval ==
    /\ [] C6_Invocations
    /\ [][(state = "stopped" /\ state' = "stopped")
            => watch'.invocations = watch.invocations]_vars

\* A key with interval 2 was started and stopped before its third tick: 6
\* seconds after start() the executor has been invoked at 2 s and at 4 s.
C6_Witness ==
    /\ calls = << "start", "stop" >>
    /\ state = "stopped"
    /\ watch.now = 12
    /\ Len(trackedActions) = 1
    /\ trackedActions[1].ev.settings.interval = NumberValue(Fin(4))
    /\ Len(watch.invocations) = 2
    /\ watch.invocations[1].at = 4
    /\ watch.invocations[2].at = 8
    /\ watch.invocations[2].settings = trackedActions[1].ev.settings

\* The settings are complete: a script path is present and the interval is
\* a finite positive number, given as a number or as a numeric string.
IsComplete(settings) ==
    /\ settings.path # Undefined
    /\ Len(settings.path) > 0
    /\ \/ /\ settings.interval.type = "number"
          /\ settings.interval.num.cls = "fin"
          /\ settings.interval.num.x2 > 0
       \/ /\ settings.interval.type = "string"
          /\ StringToNumber(settings.interval.str).cls = "fin"
          /\ StringToNumber(settings.interval.str).x2 > 0

(* C7: a key press while the service is stopped starts it when the pressed
   key's settings are complete, and otherwise leaves it stopped, creates no
   timer and shows the alert; a key press while the service runs stops it,
   whatever the settings of the pressed key. *)
C7_KeyPressToggles ==
    [][\A k \in Keys :
         OnKeyDown(k)
         => IF state = "running"
            THEN /\ state' = "stopped"
                 /\ out' = StopCommands(k)
                 /\ DOMAIN timers' = {}
            ELSE IF IsComplete(keySettings[k])
            THEN /\ state' = "running"
                 /\ out' = StartCommands(k)
                 /\ \A i \in 1 .. Len(trackedActions') :
                        trackedActions'[i].timerId \in DOMAIN timers'
            ELSE /\ state' = "stopped"
                 /\ out' = << ShowAlert(k) >>
                 /\ trackedActions' = trackedActions
                 /\ DOMAIN timers' = {}]_vars

\* Two key presses in a row, the second one on a key with incomplete
\* settings: it stopped the service the first one had started.
C7_Witness ==
    /\ calls = << "onKeyDown", "onKeyDown" >>
    /\ state = "stopped"
    /\ Len(trackedActions) > 0
    /\ \E k \in live : out = StopCommands(k) /\ ~ IsComplete(keySettings[k])

\* Every live timer is the timer of a tracked entry, captures the event the
\* entry stores and has the period of that event's settings.
C8_TimersHoldLatestEvent ==
    \A h \in DOMAIN timers :
        \E i \in 1 .. Len(trackedActions) :
            /\ trackedActions[i].timerId = h
            /\ trackedActions[i].id = timers[h].ev.id
            /\ trackedActions[i].ev = timers[h].ev
            /\ timers[h].period
                   = NormalizeInterval(trackedActions[i].ev.settings).x2

(* C8: every tick of a tracked entry invokes the executor with the event
   registerAction stored last for the entry, and the period of the entry's
   timer is the interval of those settings. *)
C8_TickUsesLatestSettings ==
    /\ [] C8_TimersHoldLatestEvent
    /\ [][\A h \in DOMAIN timers :
            Tick(h)
            => \E i \in 1 .. Len(trackedActions) :
                  /\ trackedActions[i].id = timers[h].ev.id
                  /\ children' = executeAction(children, trackedActions[i].ev)
                  /\ timers'[h].left
                         = NormalizeInterval(trackedActions[i].ev.settings).x2]_vars

\* The only tracked id was registered twice in a row, the service running;
\* its timer, at the default interval of the settings stored last, has
\* fired and spawned a child with those settings.
C8_Witness ==
    /\ calls = << "registerAction", "registerAction" >>
    /\ state = "running"
    /\ Len(trackedActions) = 1
    /\ trackedActions[1].ev.settings.interval
           = StringValue(<< "a", "b", "c" >>)
    /\ children = SetToBag({MkChild(trackedActions[1].ev)})
    /\ timers[trackedActions[1].timerId].period = 2 * DefaultInterval

(* C9: no child process is ever spawned for a key whose settings lack a
   script path or have an invalid interval. *)
C9_NoSpawnWhenIncomplete ==
    \A c \in BagToSet(children) : IsComplete(c.ev.settings)

(* C10 as claimed: the tracked table holds exactly one entry for every live
   key and none for any other key. *)
C10_OneEntryPerLiveKey ==
    \A k \in Keys :
        Cardinality(EntriesOf(trackedActions, k))
            = IF k \in live THEN 1 ELSE 0

\* No id has two entries, a key that is not live has none, a live key with
\* complete settings has one, and an entry stores the key's settings.
C10_Entries ==
    \A k \in Keys :
        /\ Cardinality(EntriesOf(trackedActions, k)) <= 1
        /\ k \notin live => ~ IsTracked(trackedActions, k)
        /\ (k \in live /\ IsComplete(keySettings[k]))
               => IsTracked(trackedActions, k)
        /\ \A i \in EntriesOf(trackedActions, k) :
               trackedActions[i].ev = MkEvent(k, keySettings[k])

(* C10 amended: at most one entry per id and none for a key that is not
   live; a key gets its entry when it appears with complete settings, or at
   its first settings change; a settings change updates the entry in place;
   the disappearance of the key removes it. *)
C10_EntryPerConfiguredLiveKey ==
    /\ [] C10_Entries
    /\ [][\A k \in Keys :
            /\ OnWillAppear(k)
               => (IsTracked(trackedActions', k) <=> IsComplete(keySettings[k]))
            /\ \A s \in SettingsInputs :
                 OnDidReceiveSettings(k, s)
                 => /\ IsTracked(trackedActions', k)
                    /\ IsTracked(trackedActions, k)
                       => /\ Len(trackedActions') = Len(trackedActions)
                          /\ EntriesOf(trackedActions', k)
                                 = EntriesOf(trackedActions, k)
            /\ OnWillDisappear(k) => ~ IsTracked(trackedActions', k)]_vars

\* Both keys are live: one appeared with incomplete settings and has no
\* entry, the other has its one entry, updated by a settings change.
C10_Witness ==
    /\ calls[2] = "onDidReceiveSettings"
    /\ live = Keys
    /\ Len(trackedActions) = 1
    /\ \E k \in Keys :
          ~ IsTracked(trackedActions, k) /\ ~ IsComplete(keySettings[k])

(* C11: a child process spawned by a tick is not killed when the timer of
   its entry is cancelled by stop or its entry is unregistered: stop,
   unregisterAction and registerAction leave the children in flight as they
   are, and whenever a chunk of a child in flight reaches its stdout or
   stderr handler, the key tracked or not and the service running or not,
   the handler sets the image (and the title and the alert) of the key of
   the child. *)
C11_ChildOutlivesEntry ==
    [][/\ \A k \in Keys :
            (Stop(k) \/ UnregisterAction(k)) => children' = children
       /\ \A ev \in ChildEvents : RegisterAction(ev) => children' = children
       /\ \A c \in BagToSet(children) :
            /\ \A data \in StdoutSample :
                  ChildStdout(c, data)
                  => /\ out' # << >>
                     /\ \A i \in 1 .. Len(out') : out'[i].id = c.ev.id
                     /\ out'[Len(out')].cmd = "setImage"
            /\ \A data \in StderrSample :
                  ChildStderr(c, data)
                  => /\ Len(out') = 3
                     /\ \A i \in 1 .. Len(out') : out'[i].id = c.ev.id
                     /\ out'[1].cmd = "setImage"
                     /\ out'[2].cmd = "setTitle"
                     /\ out'[3].cmd = "showAlert"]_vars

\* The service is stopped, the key of a child in flight is no longer
\* tracked, and the stderr handler of the child has just set the image and
\* the title of the key and triggered the alert.
C11_Witness ==
    /\ state = "stopped"
    /\ \E c \in BagToSet(children) :
          /\ ~ IsTracked(trackedActions, c.ev.id)
          /\ \E data \in StderrSample : out = stderrData(c.ev, data)

\* While the service runs every timer is where the time since start() puts
\* it, whatever children are in flight.
C12_TimersOnSchedule ==
    state = "running"
    => \A h \in DOMAIN timers :
          /\ timers[h].left \in 0 .. timers[h].period
          /\ (watch.now + timers[h].left) % timers[h].period = 0

(* C12: ticks are never awaited: while the service runs, a child process in
   flight does not delay, skip or cancel the next tick of its own entry or of
   another entry: every timer stays on the schedule its period gives it, each
   tick of an entry with a script path adds one child to those in flight, so
   that several children of one entry are in flight at once, and a tick
   alters neither the table (timer handles, stored events) nor any other
   timer. *)
C12_TicksNeverAwaited ==
    /\ [] C12_TimersOnSchedule
    /\ [][\A h \in DOMAIN timers :
            ClockTick(h)
            => /\ children'
                    = IF Truthy(timers[h].ev.settings.path)
                      THEN children (+) SetToBag({MkChild(timers[h].ev)})
                      ELSE children
               /\ trackedActions' = trackedActions
               /\ state' = state
               /\ DOMAIN timers' = DOMAIN timers
               /\ \A g \in DOMAIN timers :
                     /\ timers'[g].ev = timers[g].ev
                     /\ timers'[g].period = timers[g].period
                     /\ g # h => timers'[g] = timers[g]]_vars

\* Two entries run; two children of one of them are in flight at once.
C12_Witness ==
    /\ state = "running"
    /\ Len(trackedActions) = 2
    /\ \E c \in BagToSet(children) : CopiesIn(c, children) = 2

\* The handles of the table ta.
HandlesOf(ta) == { ta[i].timerId : i \in 1 .. Len(ta) } \ {NoTimer}

(* C13: start() sets the run-state to running and, for every tracked entry,
   cancels the timer the entry has and leaves exactly one fresh timer, with
   the stored event of the entry and the normalized interval of its settings
   as period, a whole period away from firing; no other timer is live after;
   start() does not invoke the executor: the children in flight are those of
   before, and no timer is due when start() returns. *)
C13_StartArmsEveryEntry ==
    [][\A k \in Keys :
         Start(k)
         => /\ state' = "running"
            /\ Len(trackedActions') = Len(trackedActions)
            /\ \A i \in 1 .. Len(trackedActions) :
                  LET e == trackedActions'[i]
                  IN  /\ e.id = trackedActions[i].id
                      /\ e.ev = trackedActions[i].ev
                      /\ e.timerId # NoTimer
                      /\ e.timerId \in DOMAIN timers'
                      /\ timers'[e.timerId].ev = e.ev
                      /\ timers'[e.timerId].period
                             = NormalizeInterval(e.ev.settings).x2
                      /\ timers'[e.timerId].left = timers'[e.timerId].period
                      /\ timers'[e.timerId].left > 0
            /\ DOMAIN timers' = HandlesOf(trackedActions')
            /\ Cardinality(DOMAIN timers') = Len(trackedActions)
            /\ children' = children]_vars

\* start() was called on a running service with two entries, after a tick of
\* an earlier round of timers.
C13_Witness ==
    /\ calls = << "start", "start" >>
    /\ Len(trackedActions) = 2
    /\ children # EmptyBag
    /\ \A h \in DOMAIN timers : timers[h].left = timers[h].period

\* The message the stderr handler classifies.
ErrorString(data) == NewlinesToSpaces(Trim(data))

\* The commands of the stderr handler but for the title.
C14_FailureAndAlert(id, cmds) ==
    /\ Len(cmds) = 3
    /\ cmds[1] = SetImage(id, "imgs/actions/pyServiceIconFail.png")
    /\ cmds[2].cmd = "setTitle" /\ cmds[2].id = id
    /\ cmds[3] = ShowAlert(id)

(* C14 as claimed: a stderr message that contains "ZeroDivisionError"
   anywhere gets the division-error title, a message that contains none of
   the keys of the pattern table gets the generic title, and in every case
   the failure image is set and the alert is triggered. *)
C14_ZeroDivisionAnywhere ==
    [][\A c \in BagToSet(children), data \in StderrChunks :
         ChildStderr(c, data)
         => /\ C14_FailureAndAlert(c.ev.id, out')
            /\ Includes(data, KeyZeroDivisionError)
                  => out'[2].title = TitleZeroDivisionError
            /\ (\A i \in 1 .. Len(pythonErrorMap) :
                    ~ Includes(data, pythonErrorMap[i].key))
                  => out'[2].title = OtherIssue]_vars

(* C14 amended: the message is classified as trimmed and with every line
   break replaced by a space; the title is that of the first key of the
   pattern table, in the order of the table, that the message contains, so
   a message with "ZeroDivisionError" gets the division-error title when it
   contains none of the four keys before it, and a message that contains no
   key gets the generic title; in every case the failure image is set and
   the alert is triggered. *)
C14_FirstKeyInTableOrder ==
    [][\A c \in BagToSet(children), data \in StderrChunks :
         ChildStderr(c, data)
         => LET msg == ErrorString(data)
                hits == { i \in 1 .. Len(pythonErrorMap) :
                            Includes(msg, pythonErrorMap[i].key) }
            IN  /\ C14_FailureAndAlert(c.ev.id, out')
                /\ \A i \in hits :
                      (\A j \in hits : i <= j)
                          => out'[2].title = pythonErrorMap[i].title
                /\ hits = {} => out'[2].title = OtherIssue
                /\ (5 \in hits /\ hits \cap (1 .. 4) = {})
                      => out'[2].title = TitleZeroDivisionError
                /\ pythonErrorMap[5].key = KeyZeroDivisionError]_vars

\* A chunk with "NameError" before "ZeroDivisionError" has reached the stderr
\* handler of a child: the title is the one of NameError.
C14_Witness ==
    \E c \in BagToSet(children) :
        /\ out = stderrData(c.ev, ErrNameThenZeroDivision)
        /\ out[2].title = TitleNameError

\* The image command the stdout handler issues last.
C15_Image(cmds) == cmds[Len(cmds)]

\* The title is set to the trimmed text exactly when displayValues is set,
\* before the image.
C15_TitleIffDisplayValues(c, data, cmds) ==
    /\ Len(cmds) = IF c.settings.displayValues THEN 2 ELSE 1
    /\ c.settings.displayValues => cmds[1] = SetTitle(c.ev.id, Trim(data))
    /\ C15_Image(cmds).cmd = "setImage"
    /\ C15_Image(cmds).id = c.ev.id

(* C15 as claimed: per trimmed chunk the image is image1 if the text equals
   value1, else image2 if the text equals value2, else the idle image, a
   configured pair being one with a value and an image; a chunk that matches
   no configured pair resets to idle; the title is set to the trimmed text
   exactly when displayValues is set. *)
C15_FirstEqualPairWins ==
    [][\A c \in BagToSet(children), data \in StdoutChunks :
         ChildStdout(c, data)
         => LET s == c.settings
                m1 == /\ TruthyImage(s.image1) /\ s.value1 # Undefined
                      /\ Trim(data) = s.value1
                m2 == /\ TruthyImage(s.image2) /\ s.value2 # Undefined
                      /\ Trim(data) = s.value2
            IN  /\ C15_TitleIffDisplayValues(c, data, out')
                /\ C15_Image(out').image
                       = IF m1 THEN s.image1
                         ELSE IF m2 THEN s.image2
                         ELSE "imgs/actions/pyServiceIcon.png"]_vars

(* C15 amended: a pair takes part when its image is set and not empty, and a
   value that is absent counts as the empty text; per trimmed chunk the
   image is image1 if the first pair takes part and the text equals its
   value, else image2 if the second pair takes part and the text equals its
   value, else the idle image; so an empty chunk selects a pair with an image
   and no value; the title is set to the trimmed text exactly when
   displayValues is set, whichever image is set. *)
C15_FirstMatchingPairWins ==
    [][\A c \in BagToSet(children), data \in StdoutChunks :
         ChildStdout(c, data)
         => LET s == c.settings
                text == Trim(data)
                m1 == /\ s.image1 \notin {UndefinedImage, ""}
                      /\ \/ s.value1 # Undefined /\ text = s.value1
                         \/ s.value1 = Undefined /\ text = << >>
                m2 == /\ s.image2 \notin {UndefinedImage, ""}
                      /\ \/ s.value2 # Undefined /\ text = s.value2
                         \/ s.value2 = Undefined /\ text = << >>
            IN  /\ C15_TitleIffDisplayValues(c, data, out')
                /\ m1 => C15_Image(out').image = s.image1
                /\ (~ m1 /\ m2) => C15_Image(out').image = s.image2
                /\ (~ m1 /\ ~ m2)
                      => C15_Image(out').image
                             = "imgs/actions/pyServiceIcon.png"]_vars

\* A chunk of white space has reached the stdout handler of a child whose
\* first pair has an image and no value, with displayValues set: the title
\* is empty and the image is image1.
C15_Witness ==
    \E c \in BagToSet(children) :
        /\ c.settings.displayValues
        /\ c.settings.value1 = Undefined
        /\ out = << SetTitle(c.ev.id, << >>), SetImage(c.ev.id, "on.png") >>

\* The interval in half seconds that is kept, for the inputs that are a
\* finite positive number or a string that parses to one.
C16_Kept ==
    { << NumberValue(Fin(10)), 10 >>, << StringValue(<< "5" >>), 10 >>,
      << NumberValue(Fin(15)), 15 >>,
      << StringValue(<< "7", ".", "5" >>), 15 >> }

\* The period in steps of 500 ms the claim gives an interval.
C16_Period(i) ==
    IF \E p \in C16_Kept : p[1] = i
    THEN (CHOOSE p \in C16_Kept : p[1] = i)[2]
    ELSE 20

(* C16: the interval used for a timer is the interval of the settings when
   that is a finite positive number or a string that parses to one ("5" is
   5, 7.5 is 7.5) and the default 10 for every other input (0, a negative
   number, a string that is no number, the empty string, undefined, a number
   that is not finite); every timer has a strictly positive period, and the
   registry calls go through with any of these settings: a registered key
   has an entry, and a timer while the service runs after start(). *)
C16_IntervalNormalized ==
    /\ \A h \in DOMAIN timers :
          /\ timers[h].period > 0
          /\ timers[h].period = C16_Period(timers[h].ev.settings.interval)
    /\ \A i \in 1 .. Len(trackedActions) :
          normalizeSettings(trackedActions[i].ev.settings).interval
              = Fin(C16_Period(trackedActions[i].ev.settings.interval))
    /\ calls[2] = "registerAction" => Len(trackedActions) = 1
    /\ (calls[2] = "start" /\ Len(trackedActions) = 1)
          => Cardinality(DOMAIN timers) = 1

\* A key registered with the interval -3 runs on a 10 s timer that has fired.
C16_Witness ==
    /\ state = "running"
    /\ children # EmptyBag
    /\ \E h \in DOMAIN timers :
          /\ timers[h].ev.settings.interval = NumberValue(Fin(0 - 6))
          /\ timers[h].period = 2 * DefaultInterval

\* The parent directory of the paths that can be a regular file.
C17_Parent(p) ==
    IF p = VenvCfg THEN VenvDir
    ELSE IF p = VenvDir THEN Root
    ELSE IF p = RelativeCfg THEN Cwd
    ELSE p

\* The path is one that exists and is a regular file.
C17_IsFile(files, p) == p \in FilePaths /\ files[p] = "file"

(* C17: on any state of the filesystem, normalizeVenvPath maps a path that
   exists and is a regular file to its parent directory and any other path
   (a directory, a path that does not exist or cannot be queried) to itself,
   and normalizing the result again returns the result. *)
C17_NormalizeIdempotent ==
    /\ fsys.once # Undefined
          => fsys.once = IF C17_IsFile(fsys.files, fsys.path)
                         THEN C17_Parent(fsys.path)
                         ELSE fsys.path
    /\ fsys.twice # Undefined => fsys.twice = fsys.once

\* The path of a marker file in a venv directory has been normalized twice:
\* both results are the venv directory.
C17_Witness ==
    /\ fsys.path = VenvCfg
    /\ fsys.files[VenvCfg] = "file"
    /\ fsys.once = VenvDir
    /\ fsys.twice = VenvDir

(* C18: no orphan timers: after any sequence of registerAction /
   unregisterAction / start / stop calls every live timer is the timer
   handle of exactly one tracked entry, whose id and stored event are those
   its callback runs with, no two entries have the same handle, the handle
   of an entry is a live timer, and so there are no more live timers than
   tracked entries and every tick runs for a tracked id. *)
C18_NoOrphanTimers ==
    /\ \A h \in DOMAIN timers :
          /\ Cardinality({ i \in 1 .. Len(trackedActions) :
                             trackedActions[i].timerId = h }) = 1
          /\ \A i \in 1 .. Len(trackedActions) :
                trackedActions[i].timerId = h
                => /\ timers[h].ev.id = trackedActions[i].id
                   /\ timers[h].ev = trackedActions[i].ev
          /\ IsTracked(trackedActions, timers[h].ev.id)
    /\ \A i, j \in 1 .. Len(trackedActions) :
          (i # j /\ trackedActions[i].timerId # NoTimer)
              => trackedActions[i].timerId # trackedActions[j].timerId
    /\ \A i \in 1 .. Len(trackedActions) :
          trackedActions[i].timerId # NoTimer
              => trackedActions[i].timerId \in DOMAIN timers
    /\ Cardinality(DOMAIN timers) <= Len(trackedActions)

\* The service runs, one of two entries has been unregistered after a tick
\* and registered again: one live timer, two tracked entries.
C18_Witness ==
    /\ calls = << "unregisterAction", "registerAction" >>
    /\ state = "running"
    /\ Len(trackedActions) = 2
    /\ Cardinality(DOMAIN timers) = 1
    /\ children # EmptyBag

(* C19: whenever the run-state is stopped, initially and after any sequence
   of registerAction / unregisterAction / start / stop calls, no tracked
   entry has a timer handle and no timer is live. *)
C19_StoppedHasNoTimers ==
    state = "stopped"
    => /\ AllHandlesCleared(trackedActions)
       /\ DOMAIN timers = {}

\* The service was stopped with two entries whose timers had ticked, and an
\* entry has been registered since.
C19_Witness ==
    /\ calls = << "stop", "registerAction" >>
    /\ state = "stopped"
    /\ Len(trackedActions) = 2
    /\ children # EmptyBag

\* An entry without a handle has no live timer: no tick runs for its key.
C20_NoHandleNoTimer ==
    \A i \in 1 .. Len(trackedActions) :
        trackedActions[i].timerId = NoTimer
            => LiveTimersOf(timers, trackedActions[i].id) = {}

(* C20: a key that disappears and appears again while the service runs is
   tracked again, its settings being complete, with no timer handle and no
   live timer, so it gets no tick and no executor invocation; the appearance
   of a key never gives it a timer: a key without a live timer gets one only
   by a key press that starts the stopped service or by a settings-changed
   event of that key, and a child is spawned only for a key with a live
   timer. *)
C20_ReappearDoesNotRearm ==
    /\ [] C20_NoHandleNoTimer
    /\ [][\A k \in Keys :
            /\ OnWillAppear(k)
               => /\ LiveTimersOf(timers', k) = {}
                  /\ ~ HandleExists(trackedActions', k)
                  /\ IsTracked(trackedActions', k)
                         <=> IsComplete(keySettings[k])
                  /\ children' = children
            /\ (LiveTimersOf(timers, k) = {} /\ LiveTimersOf(timers', k) # {})
               => \/ state = "stopped" /\ state' = "running"
                     /\ calls'[2] = "onKeyDown"
                  \/ \E s \in SettingsInputs : OnDidReceiveSettings(k, s)
            /\ (\E c \in BagToSet(children') :
                    c.ev.id = k /\ CopiesIn(c, children') > CopiesIn(c, children))
               => LiveTimersOf(timers, k) # {}]_vars

\* The service runs and a timer of one key has ticked; the other key has
\* disappeared and appeared again: it is tracked and has no timer.
C20_Witness ==
    /\ calls = << "onWillDisappear", "onWillAppear" >>
    /\ state = "running"
    /\ live = Keys
    /\ Len(trackedActions) = 2
    /\ children # EmptyBag
    /\ \E k \in Keys :
          /\ ~ HandleExists(trackedActions, k)
          /\ LiveTimersOf(timers, k) = {}
          /\ \A c \in BagToSet(children) : c.ev.id # k
    /\ Cardinality(DOMAIN timers) = 1

\* The entries of ta whose id is not k, in the order of the table.
C21_Others(ta, k) ==
    LET Other(e) == e.id # k
    IN  SelectSeq(ta, Other)

\* The live timers of the entries of ta whose id is not k are the same
\* before and after.
C21_OtherTimersKept(ta, k, before, after) ==
    \A i \in 1 .. Len(ta) :
        (ta[i].id # k /\ ta[i].timerId # NoTimer)
            => /\ ta[i].timerId \in DOMAIN before
               /\ ta[i].timerId \in DOMAIN after
               /\ after[ta[i].timerId] = before[ta[i].timerId]

(* C21: start() and stop() leave the tracked ids, their order and the
   stored event of every entry as they are (they change the run-state and
   the timer handles); registerAction and unregisterAction never change the
   run-state, and leave the stored event, the timer handle and the timer of
   every entry with another id, and the order of these entries, as they
   are. *)
C21_FrameConditions ==
    [][/\ \A k \in Keys :
            (Start(k) \/ Stop(k))
            => /\ Len(trackedActions') = Len(trackedActions)
               /\ \A i \in 1 .. Len(trackedActions) :
                     /\ trackedActions'[i].id = trackedActions[i].id
                     /\ trackedActions'[i].ev = trackedActions[i].ev
       /\ \A ev \in Events :
            RegisterAction(ev)
            => /\ state' = state
               /\ C21_Others(trackedActions', ev.id)
                      = C21_Others(trackedActions, ev.id)
               /\ \A i \in 1 .. Len(trackedActions) :
                     trackedActions[i].id # ev.id
                         => trackedActions'[i] = trackedActions[i]
               /\ C21_OtherTimersKept(trackedActions, ev.id, timers, timers')
       /\ \A k \in Keys :
            UnregisterAction(k)
            => /\ state' = state
               /\ C21_Others(trackedActions', k)
                      = C21_Others(trackedActions, k)
               /\ C21_OtherTimersKept(trackedActions, k, timers, timers')]_vars

\* The service was started with two entries, the timer of one came due and
\* that entry was unregistered: the other entry is there with the timer it
\* had, part of its period gone.
C21_Witness ==
    /\ calls = << "start", "unregisterAction" >>
    /\ state = "running"
    /\ Len(trackedActions) = 1
    /\ trackedActions[1].timerId \in DOMAIN timers
    /\ timers[trackedActions[1].timerId].left
           < timers[trackedActions[1].timerId].period

====
